---- MODULE Spec2Model ----
(***************************************************************************)
(* Model of mantenimiento_app.py: a Streamlit script that is re-run from   *)
(* top to bottom on every user interaction.  One run loads the equipment   *)
(* table from data/equipos.xlsx, handles the add-equipment form, cleans    *)
(* the column types, handles the editable table, and exports the records   *)
(* of one selected week as a spreadsheet and as a PDF table.               *)
(*                                                                         *)
(* Cell values are tagged tuples, so that values of different Python types *)
(* can be compared:                                                        *)
(*   <<"s", str>>          a Python str                                    *)
(*   <<"hms", h, m>>       the str "HH:MM:00" (str(datetime.time))         *)
(*   <<"hmp", h12, m, ap>> the str "%I:%M %p", e.g. "02:30 PM"             *)
(*   <<"dmy", d, m, y>>    the str "%d-%b-%Y", e.g. "20-Oct-2025"          *)
(*   <<"d", y, m, d>>      a date / Timestamp                              *)
(*   <<"i", n>>            an integer                                      *)
(*   <<"f", n>>            the float n.0                                   *)
(*   <<"na">>              NaN / NaT / None / <NA>                         *)
(*   <<"blank">>           a spreadsheet cell with no value                *)
(***************************************************************************)
EXTENDS Integers, Sequences, FiniteSets, TLC

VARIABLES file, df, form, pc, mensajes, semanas, out

vars == <<file, df, form, pc, mensajes, semanas, out>>

(***************************************************************************)
(* Bounds of the model                                                     *)
(***************************************************************************)
MaxRecords == 3

(***************************************************************************)
(* Configuration                                                           *)
(***************************************************************************)
EXPORT_FOLDER == "exports"

NA == <<"na">>
Blank == <<"blank">>
S(s) == <<"s", s>>
D(y, m, d) == <<"d", y, m, d>>

IsDate(v) == v[1] = "d"

SchemaColumns ==
    <<"Tipo", "Departamento", "Sucursal", "Responsable", "Posicion",
      "Nombre de Equipo", "Correo", "Fecha de Mantenimiento", "Hora">>

Range(s) == {s[i] : i \in 1..Len(s)}

(***************************************************************************)
(* Spreadsheet round trip of the backing table                             *)
(***************************************************************************)
\* DataFrame.to_excel writes a missing value as a cell with no value.
WriteCell(v) == IF v = NA THEN Blank ELSE v

\* pandas.read_excel reads a cell with no value, and the default NA strings
\* "" and "nan", as NaN.
ReadCell(v) == IF v \in {Blank, S(""), S("nan")} THEN NA ELSE v

to_excel(t) ==
    [columns |-> t.columns,
     rows |-> [i \in 1..Len(t.rows) |->
                 [c \in Range(t.columns) |-> WriteCell(t.rows[i][c])]]]

read_excel(t) ==
    [columns |-> t.columns,
     rows |-> [i \in 1..Len(t.rows) |->
                 [c \in Range(t.columns) |-> ReadCell(t.rows[i][c])]]]

EmptyFrame == [columns |-> SchemaColumns, rows |-> <<>>]

NoFile == [exists |-> FALSE, table |-> [columns |-> <<>>, rows |-> <<>>]]

Stored(t) == [exists |-> TRUE, table |-> to_excel(t)]

\* save_data(df): the whole table overwrites DATA_FILE.
save_data(t) == Stored(t)

\* df = load_data()
LoadData ==
    /\ pc = "load"
    /\ IF file.exists
         THEN /\ df' = read_excel(file.table)
              /\ file' = file
         ELSE /\ df' = EmptyFrame
              /\ file' = Stored(EmptyFrame)
    /\ pc' = "form"
    /\ UNCHANGED <<form, mensajes, semanas, out>>

(***************************************************************************)
(* The add-equipment form                                                  *)
(***************************************************************************)
\* Values the user can type into the form.  date_input and time_input always
\* deliver a date and a time; the text inputs deliver "" when left empty.
Tipos == {"Laptop"}
Departamentos == {"TI"}
Sucursales == {"Centro"}
Responsables == {"Ana"}
Posiciones == {"Analista"}
Correos == {""}
Horas == {<<14, 30>>}

NombreFecha ==
    { <<"PC-1", D(2025, 10, 20)>>, <<"PC-2", D(2025, 10, 24)>>,
      <<"PC-3", D(2025, 10, 29)>>, <<"PC-1", D(2024, 12, 30)>>,
      <<"PC-2", D(2025, 1, 1)>>,   <<"PC-3", D(2025, 12, 31)>>,
      <<"", D(2025, 10, 20)>> }

Entradas ==
    { [tipo |-> t, depto |-> dp, sucursal |-> su, responsable |-> r,
       posicion |-> p, nombre |-> nf[1], correo |-> co,
       fecha_mantenimiento |-> nf[2], hora |-> h] :
         t \in Tipos, dp \in Departamentos, su \in Sucursales,
         r \in Responsables, p \in Posiciones, nf \in NombreFecha,
         co \in Correos, h \in Horas }

\* The widgets' values in a run in which the form was not submitted.
SinEntrada ==
    [tipo |-> "", depto |-> "", sucursal |-> "", responsable |-> "",
     posicion |-> "", nombre |-> "", correo |-> "",
     fecha_mantenimiento |-> D(2025, 10, 20), hora |-> <<14, 30>>]

\* str(hora) of a datetime.time without seconds: "HH:MM:00"
StrHora(h) == <<"hms", h[1], h[2]>>

new_row(f) ==
    ("Tipo" :> S(f.tipo)) @@ ("Departamento" :> S(f.depto)) @@
    ("Sucursal" :> S(f.sucursal)) @@ ("Responsable" :> S(f.responsable)) @@
    ("Posicion" :> S(f.posicion)) @@ ("Nombre de Equipo" :> S(f.nombre)) @@
    ("Correo" :> S(f.correo)) @@
    ("Fecha de Mantenimiento" :> f.fecha_mantenimiento) @@
    ("Hora" :> StrHora(f.hora))

\* Mutant: the name is not looked at.
AcceptedAnyName(submitted, nombre) == submitted

\* if submitted and nombre:
Accepted(submitted, nombre) == submitted /\ nombre # ""

\* Mutant: the new row goes first.
concatFront(t, row) == [columns |-> t.columns, rows |-> <<row>> \o t.rows]

\* pd.concat([df, pd.DataFrame([new_row])], ignore_index=True)
concat(t, row) == [columns |-> t.columns, rows |-> Append(t.rows, row)]

AgregarEquipo ==
    /\ pc = "form"
    /\ \E submitted \in BOOLEAN :
       \E f \in (IF submitted THEN Entradas ELSE {SinEntrada}) :
          /\ Accepted(submitted, f.nombre) => Len(df.rows) < MaxRecords
          /\ form' = [submitted |-> submitted, campos |-> f]
          /\ IF Accepted(submitted, f.nombre)
               THEN /\ df' = concat(df, new_row(f))
                    /\ file' = save_data(df')
                    /\ mensajes' = mensajes \cup {"equipo agregado"}
               ELSE UNCHANGED <<df, file, mensajes>>
    /\ pc' = "clean"
    /\ UNCHANGED <<semanas, out>>

(***************************************************************************)
(* Cleaning of the column types                                            *)
(***************************************************************************)
FechaCols == {"Fecha de Mantenimiento"}
HoraCols == {"Hora"}

\* pd.to_datetime(..., errors="coerce"): a date stays, the str of a formatted
\* date or time parses, anything else becomes NaT.
to_datetime(v) ==
    CASE v[1] = "d" -> v
      [] v[1] = "dmy" -> D(v[4], v[3], v[2])
      [] v[1] = "hms" -> <<"t", v[2], v[3]>>
      [] v[1] = "hmp" ->
           <<"t", (v[2] % 12) + (IF v[4] = "PM" THEN 12 ELSE 0), v[3]>>
      [] OTHER -> NA

\* .astype(str): NaN becomes the str "nan"; .fillna("") then finds nothing
\* left to fill.
astype_str(v) == IF v = NA THEN S("nan") ELSE v

fillna(v, x) == IF v = NA THEN x ELSE v

CleanCell(col, v) ==
    IF col \in FechaCols THEN to_datetime(v)
    ELSE IF col \in HoraCols THEN astype_str(v)
    ELSE fillna(astype_str(v), S(""))

CleanFrame(t) ==
    [columns |-> t.columns,
     rows |-> [i \in 1..Len(t.rows) |->
                 [c \in Range(t.columns) |-> CleanCell(c, t.rows[i][c])]]]

LimpiarTipos ==
    /\ pc = "clean"
    /\ df' = CleanFrame(df)
    /\ pc' = "editor"
    /\ UNCHANGED <<file, form, mensajes, semanas, out>>

(***************************************************************************)
(* The editable table                                                      *)
(***************************************************************************)
RemoveAt(s, i) == [j \in 1..(Len(s) - 1) |-> IF j < i THEN s[j] ELSE s[j + 1]]

SetCell(t, i, c, v) ==
    [t EXCEPT !.rows = [t.rows EXCEPT ![i] = [t.rows[i] EXCEPT ![c] = v]]]

\* What st.data_editor can return besides df itself: a row deleted
\* (num_rows="dynamic"), the date of a row cleared, or the time of a row
\* cleared (the model clears the time of the first row only).
Ediciones(t) ==
    {[t EXCEPT !.rows = RemoveAt(t.rows, i)] : i \in 1..Len(t.rows)}
    \cup {SetCell(t, i, "Fecha de Mantenimiento", NA) : i \in 1..Len(t.rows)}
    \cup {SetCell(t, i, "Hora", NA) : i \in 1..Len(t.rows) \cap {1}}

\* Streamlit re-runs the script once per interaction: the run that follows
\* the form's submit button carries no edit of the table.
TablaEditable ==
    /\ pc = "editor"
    /\ \E edited_df \in ({df} \cup (IF form.submitted THEN {} ELSE Ediciones(df))) :
          IF edited_df # df
            THEN /\ file' = save_data(edited_df)
                 /\ mensajes' = mensajes \cup {"cambios guardados"}
                 /\ df' = edited_df
            ELSE UNCHANGED <<file, mensajes, df>>
    /\ pc' = "export"
    /\ UNCHANGED <<form, semanas, out>>

(***************************************************************************)
(* Calendar arithmetic                                                     *)
(***************************************************************************)
IsLeap(y) == (y % 4 = 0) /\ ((y % 100 # 0) \/ (y % 400 = 0))

DaysInMonth(y, m) ==
    IF m = 2 THEN (IF IsLeap(y) THEN 29 ELSE 28)
    ELSE IF m \in {4, 6, 9, 11} THEN 30 ELSE 31

RECURSIVE DaysBeforeMonth(_, _)
DaysBeforeMonth(y, m) ==
    IF m = 1 THEN 0 ELSE DaysBeforeMonth(y, m - 1) + DaysInMonth(y, m - 1)

DaysBeforeYear(y) ==
    (y - 1) * 365 + ((y - 1) \div 4) - ((y - 1) \div 100) + ((y - 1) \div 400)

\* Days since 0001-01-01, that day being 1.
ToOrdinal(v) == DaysBeforeYear(v[2]) + DaysBeforeMonth(v[2], v[3]) + v[4]

\* The ordinal of the Monday that starts ISO week 1 of a year: the week that
\* holds the year's first Thursday.
IsoWeek1Monday(y) ==
    LET firstday == DaysBeforeYear(y) + 1
        firstweekday == (firstday + 6) % 7
        monday == firstday - firstweekday
    IN  IF firstweekday > 3 THEN monday + 7 ELSE monday

\* <<ISO week-numbering year, ISO week>> of a date
IsoCalendar(v) ==
    LET y == v[2]
        today == ToOrdinal(v)
    IN  IF today < IsoWeek1Monday(y)
          THEN <<y - 1, ((today - IsoWeek1Monday(y - 1)) \div 7) + 1>>
          ELSE IF today >= IsoWeek1Monday(y + 1)
                 THEN <<y + 1, 1>>
                 ELSE <<y, ((today - IsoWeek1Monday(y)) \div 7) + 1>>

\* Series.dt.isocalendar().week
IsoWeek(v) == IsoCalendar(v)[2]

\* Series.dt.year
CalendarYear(v) == v[2]

(***************************************************************************)
(* Formatting                                                              *)
(***************************************************************************)
MonthAbbr(m) ==
    <<"Jan", "Feb", "Mar", "Apr", "May", "Jun",
      "Jul", "Aug", "Sep", "Oct", "Nov", "Dec">>[m]

Pad2(n) == IF n < 10 THEN "0" \o ToString(n) ELSE ToString(n)

\* strftime("%d-%b-%Y") of a column: the str "DD-Mon-YYYY", NaN for NaT
strftime_dbY(v) == IF IsDate(v) THEN <<"dmy", v[4], v[3], v[2]>> ELSE NA

\* strftime("%I:%M %p") of a column: the str "HH:MM AM|PM", NaN for NaT
strftime_IMp(v) ==
    IF v[1] = "t"
      THEN <<"hmp", (IF v[2] % 12 = 0 THEN 12 ELSE v[2] % 12), v[3],
             (IF v[2] < 12 THEN "AM" ELSE "PM")>>
      ELSE NA

\* f"{x}" of a number taken out of a frame
NumStr(v) == IF v[1] = "f" THEN ToString(v[2]) \o ".0" ELSE ToString(v[2])

\* f"Semana del ({x['min'].strftime('%d-%b')} al {x['max'].strftime('%d-%b %Y')})"
\* (the source separates day and month with an en dash)
RangoLabel(mn, mx) ==
    "Semana del (" \o Pad2(mn[4]) \o "-" \o MonthAbbr(mn[3]) \o " al "
      \o Pad2(mx[4]) \o "-" \o MonthAbbr(mx[3]) \o " " \o ToString(mx[2]) \o ")"

(***************************************************************************)
(* Week buckets                                                            *)
(***************************************************************************)
FECHA == "Fecha de Mantenimiento"

\* df["Fecha de Mantenimiento"] = pd.to_datetime(...); df["Semana"] = ...;
\* df["Anio"] = ....  dt.year is an integer column, and a float column as
\* soon as one date is NaT.
WithWeekColumns(t) ==
    LET fecha(i) == to_datetime(t.rows[i][FECHA])
        anyNaT == \E i \in 1..Len(t.rows) : fecha(i) = NA
        semana(i) == IF fecha(i) = NA THEN NA ELSE <<"i", IsoWeek(fecha(i))>>
        anio(i) == IF fecha(i) = NA THEN NA
                   ELSE <<(IF anyNaT THEN "f" ELSE "i"), CalendarYear(fecha(i))>>
    IN  [columns |-> t.columns \o <<"Semana", "Anio">>,
         rows |-> [i \in 1..Len(t.rows) |->
                     [t.rows[i] EXCEPT ![FECHA] = fecha(i)]
                       @@ ("Semana" :> semana(i)) @@ ("Anio" :> anio(i))]]

HasKey(row) == row["Anio"] # NA /\ row["Semana"] # NA

KeyLess(a, b) ==
    \/ a["Anio"][2] < b["Anio"][2]
    \/ a["Anio"][2] = b["Anio"][2] /\ a["Semana"][2] < b["Semana"][2]

KeyOf(row) == [c \in {"Anio", "Semana"} |-> row[c]]

\* The distinct keys of the rows from row i on that are not in seen, in
\* order of first appearance; a row with a missing key has no group.
RECURSIVE FirstSeenKeys(_, _, _)
FirstSeenKeys(rows, i, seen) ==
    IF i > Len(rows) THEN <<>>
    ELSE IF HasKey(rows[i]) /\ KeyOf(rows[i]) \notin seen
           THEN <<KeyOf(rows[i])>>
                  \o FirstSeenKeys(rows, i + 1, seen \cup {KeyOf(rows[i])})
           ELSE FirstSeenKeys(rows, i + 1, seen)

\* Mutant: groupby(sort=False), the keys stay in order of first appearance.
SortKeysOff(keys) == keys

\* groupby sorts the group keys (sort=True is the default).
RECURSIVE SortKeys(_)
SortKeys(keys) ==
    IF keys = <<>> THEN <<>>
    ELSE LET n == CHOOSE a \in 1..Len(keys) :
                    \A b \in 1..Len(keys) : ~KeyLess(keys[b], keys[a])
         IN  <<keys[n]>> \o SortKeys(RemoveAt(keys, n))

\* The group keys of df.groupby(["Anio", "Semana"])
GroupKeys(t) == SortKeys(FirstSeenKeys(t.rows, 1, {}))

\* Mutant: the week alone selects the rows.
MembersByWeek(t, anio_sel, sem_sel) ==
    {i \in 1..Len(t.rows) :
       t.rows[i]["Semana"] # NA /\ t.rows[i]["Semana"] = sem_sel}

\* df[(df["Anio"] == anio_sel) & (df["Semana"] == sem_sel)]: the row numbers
Members(t, anio_sel, sem_sel) ==
    {i \in 1..Len(t.rows) :
       t.rows[i]["Anio"] # NA /\ t.rows[i]["Semana"] # NA
       /\ t.rows[i]["Anio"] = anio_sel /\ t.rows[i]["Semana"] = sem_sel}

\* Mutant: min and max are taken over the whole frame.
AggMinMaxAll(t, k) ==
    LET fechas == {t.rows[i][FECHA] : i \in {j \in 1..Len(t.rows) : HasKey(t.rows[j])}}
    IN  [min |-> CHOOSE a \in fechas : \A b \in fechas : ToOrdinal(a) <= ToOrdinal(b),
         max |-> CHOOSE a \in fechas : \A b \in fechas : ToOrdinal(a) >= ToOrdinal(b)]

\* .agg(["min", "max"]) of the dates of one group
AggMinMax(t, k) ==
    LET fechas == {t.rows[i][FECHA] : i \in Members(t, k["Anio"], k["Semana"])}
    IN  [min |-> CHOOSE a \in fechas : \A b \in fechas : ToOrdinal(a) <= ToOrdinal(b),
         max |-> CHOOSE a \in fechas : \A b \in fechas : ToOrdinal(a) >= ToOrdinal(b)]

\* semanas, with its column "Rango"
Semanas(t) ==
    LET keys == GroupKeys(t)
    IN  [n \in 1..Len(keys) |->
           LET mm == AggMinMax(t, keys[n])
           IN  [Anio |-> keys[n]["Anio"], Semana |-> keys[n]["Semana"],
                min |-> mm.min, max |-> mm.max,
                Rango |-> RangoLabel(mm.min, mm.max)]]

\* the rows of a frame with the given row numbers, in the frame's order
RECURSIVE Take(_, _, _)
Take(rows, idx, i) ==
    IF i > Len(rows) THEN <<>>
    ELSE (IF i \in idx THEN <<rows[i]>> ELSE <<>>) \o Take(rows, idx, i + 1)

FormatHora(v) == strftime_IMp(to_datetime(v))

FormatFecha(v) == strftime_dbY(to_datetime(v))

\* The two column assignments before the export: the dates and the times
\* of df_week become formatted strings.
FormatWeek(t) ==
    [t EXCEPT !.rows = [i \in 1..Len(t.rows) |->
                          [t.rows[i] EXCEPT ![FECHA] = strftime_dbY(@),
                                            !["Hora"] = FormatHora(@)]]]

\* The two column assignments at the head of export_pdf
FormatPdf(t) ==
    [t EXCEPT !.rows = [i \in 1..Len(t.rows) |->
                          [t.rows[i] EXCEPT ![FECHA] = FormatFecha(@),
                                            !["Hora"] = FormatHora(@)]]]

\* export_pdf(df, filename): the table handed to reportlab, header row first
export_pdf(t, filename) ==
    LET f == FormatPdf(t)
    IN  [name |-> filename,
         data |-> <<f.columns>> \o
                    [i \in 1..Len(f.rows) |->
                       [j \in 1..Len(f.columns) |-> f.rows[i][f.columns[j]]]]]

\* Mutant: a fixed name whatever the selection.
DownloadNameFixed(selected, ext) == "mantenimiento" \o ext

\* file_name of the two download buttons
DownloadName(selected, ext) == "mantenimiento_" \o selected \o ext

\* os.path.join(EXPORT_FOLDER, f"mantenimiento_semana_{anio_sel}_{sem_sel}.ext")
ExportPath(anio_sel, sem_sel, ext) ==
    EXPORT_FOLDER \o "/mantenimiento_semana_" \o NumStr(anio_sel) \o "_"
      \o NumStr(sem_sel) \o ext

ExportWeek(keyed, sem, selected) ==
    \E first \in {n \in 1..Len(sem) :
                    /\ sem[n].Rango = selected
                    /\ \A m \in 1..(n - 1) : sem[m].Rango # selected} :
    \E anio_sel \in {sem[first].Anio} :
    \E sem_sel \in {sem[first].Semana} :
    \E week \in {[columns |-> keyed.columns,
                  rows |-> Take(keyed.rows, Members(keyed, anio_sel, sem_sel), 1)]} :
    \E df_week \in {FormatWeek(week)} :
       out' = [selected |-> selected,
               anio_sel |-> anio_sel,
               sem_sel |-> sem_sel,
               xlsx |-> [name |-> ExportPath(anio_sel, sem_sel, ".xlsx"),
                         table |-> to_excel(df_week)],
               xlsx_download |-> DownloadName(selected, ".xlsx"),
               pdf |-> export_pdf(df_week, ExportPath(anio_sel, sem_sel, ".pdf")),
               pdf_download |-> DownloadName(selected, ".pdf")]

Exportar ==
    /\ pc = "export"
    /\ IF df.rows # <<>>
         THEN \E keyed \in {WithWeekColumns(df)} :
              \E sem \in {Semanas(keyed)} :
                  /\ df' = keyed
                  /\ semanas' = sem
                  /\ IF sem = <<>>
                       \* nothing to select: semanas[...].iloc[0] raises
                       THEN /\ mensajes' = mensajes \cup {"error"}
                            /\ out' = <<>>
                       ELSE /\ \E selected \in {sem[n].Rango : n \in 1..Len(sem)} :
                                 ExportWeek(keyed, sem, selected)
                            /\ UNCHANGED mensajes
         ELSE /\ mensajes' = mensajes \cup {"nada que exportar"}
              /\ UNCHANGED <<df, semanas, out>>
    /\ pc' = "done"
    /\ UNCHANGED <<file, form>>

\* The next interaction re-runs the script from the top; only DATA_FILE
\* survives.
Rerun ==
    /\ pc = "done"
    /\ pc' = "load"
    /\ df' = EmptyFrame
    /\ form' = [submitted |-> FALSE, campos |-> SinEntrada]
    /\ mensajes' = {}
    /\ semanas' = <<>>
    /\ out' = <<>>
    /\ UNCHANGED file

Init ==
    /\ file = NoFile
    /\ df = EmptyFrame
    /\ form = [submitted |-> FALSE, campos |-> SinEntrada]
    /\ pc = "load"
    /\ mensajes = {}
    /\ semanas = <<>>
    /\ out = <<>>

Next ==
    \/ LoadData
    \/ AgregarEquipo
    \/ LimpiarTipos
    \/ TablaEditable
    \/ Exportar
    \/ Rerun

Spec == Init /\ [][Next]_vars

(***************************************************************************)
(* Properties                                                              *)
(***************************************************************************)
\* The run reached the end of the script with a non-empty table: df carries
\* the columns "Semana" and "Anio", semanas holds the buckets.
Keyed == pc = "done" /\ df.rows # <<>>

\* The run wrote and offered the two export artifacts.
Exported == pc = "done" /\ out # <<>>

Rows == 1..Len(df.rows)

DatedRows == {i \in Rows : df.rows[i][FECHA] # NA}

Buckets == 1..Len(semanas)

BucketMembers(n) == Members(df, semanas[n].Anio, semanas[n].Semana)

NombreDe(row) == row["Nombre de Equipo"]

\* C1: a dated record's bucket is keyed by its ISO week-numbering year and
\* ISO week: two dated records share a bucket exactly when both agree, so
\* 2024-12-30 and 2025-01-01 share one and 2025-12-31 and 2025-01-01 do not.
C1_IsoYearBuckets ==
    Keyed =>
      \A i, j \in DatedRows :
         (\E n \in Buckets : {i, j} \subseteq BucketMembers(n))
           <=> (IsoCalendar(df.rows[i][FECHA]) = IsoCalendar(df.rows[j][FECHA]))

\* C2: when the table has records and none has a parseable date, the run
\* reports "nothing to export", raises no error and writes no export file.
C2_NothingToExport ==
    (pc = "done" /\ df.rows # <<>> /\ DatedRows = {}) =>
      /\ "nada que exportar" \in mensajes
      /\ "error" \notin mensajes
      /\ out = <<>>

\* C3: the buckets partition the dated records: a dated record is a member
\* of exactly one bucket, the one with its own key; the members of all
\* buckets together are the dated records; a record without a date is a
\* member of no bucket and is still a row of the stored table.
C3_BucketsPartitionDated ==
    Keyed =>
      /\ \A i \in DatedRows :
           /\ Cardinality({n \in Buckets : i \in BucketMembers(n)}) = 1
           /\ \A n \in Buckets :
                i \in BucketMembers(n) =>
                  /\ semanas[n].Anio = df.rows[i]["Anio"]
                  /\ semanas[n].Semana = df.rows[i]["Semana"]
      /\ UNION {BucketMembers(n) : n \in Buckets} = DatedRows
      /\ \A i \in Rows \ DatedRows :
           /\ \A n \in Buckets : i \notin BucketMembers(n)
           /\ i \in 1..Len(file.table.rows)
           /\ ReadCell(file.table.rows[i][FECHA]) = NA
           /\ NombreDe(file.table.rows[i]) = NombreDe(df.rows[i])

C3_Witness ==
    /\ Exported
    /\ Rows \ DatedRows # {}
    /\ Len(semanas) >= 2

\* C4: the spreadsheet and the PDF table of a selected bucket have exactly
\* the nine columns of the table, in their fixed order.
C4_NineColumns ==
    Exported =>
      /\ out.xlsx.table.columns = SchemaColumns
      /\ out.pdf.data[1] = SchemaColumns

\* C5: in the exported view no cell of the nine columns holds NaN or the
\* token "nan": an absent value is an empty cell.
C5_AbsentCellsEmpty ==
    Exported =>
      /\ \A i \in 1..Len(out.xlsx.table.rows) : \A c \in Range(SchemaColumns) :
           out.xlsx.table.rows[i][c] \notin {NA, S("nan")}
      /\ \A i \in 2..Len(out.pdf.data) : \A j \in 1..Len(out.pdf.data[1]) :
           out.pdf.data[1][j] \in Range(SchemaColumns) =>
             out.pdf.data[i][j] \notin {NA, S("nan")}

\* C6 as stated: the artifacts are delivered as
\* mantenimiento_<year>_semana_<isoWeek>.xlsx and .pdf, year and week being
\* the selected bucket's key.
C6_KeyFileName ==
    Exported =>
      LET stem == "mantenimiento_" \o ToString(out.anio_sel[2]) \o "_semana_"
                    \o ToString(out.sem_sel[2])
      IN  /\ out.xlsx_download = stem \o ".xlsx"
          /\ out.pdf_download = stem \o ".pdf"

\* C6 amended: the artifacts are delivered as mantenimiento_<label>.xlsx and
\* .pdf, the label being the range label of the selected bucket.
C6_LabelFileName ==
    Exported =>
      \E n \in Buckets :
         /\ semanas[n].Anio = out.anio_sel
         /\ semanas[n].Semana = out.sem_sel
         /\ out.xlsx_download = "mantenimiento_" \o semanas[n].Rango \o ".xlsx"
         /\ out.pdf_download = "mantenimiento_" \o semanas[n].Rango \o ".pdf"

C6_Witness ==
    /\ Exported
    /\ Len(semanas) >= 2
    /\ out.anio_sel = semanas[2].Anio
    /\ out.sem_sel = semanas[2].Semana

\* The records of the end-to-end scenario
Escenario ==
    { <<S("PC-1"), D(2025, 10, 20)>>, <<S("PC-2"), D(2025, 10, 24)>>,
      <<S("PC-3"), D(2025, 10, 29)>> }

EsEscenario ==
    /\ Len(df.rows) = 3
    /\ {<<NombreDe(df.rows[i]), df.rows[i][FECHA]>> : i \in Rows} = Escenario

C8_LabelsUnique ==
    Keyed =>
      /\ \A m, n \in Buckets : m # n => semanas[m].Rango # semanas[n].Rango
      /\ out # <<>> =>
           \A n \in Buckets :
              semanas[n].Rango = out.selected =>
                semanas[n].Anio = out.anio_sel /\ semanas[n].Semana = out.sem_sel
      /\ \A n \in Buckets : \A i \in Rows :
           BucketMembers(n) = {i} =>
             /\ semanas[n].min = df.rows[i][FECHA]
             /\ semanas[n].max = df.rows[i][FECHA]
             /\ semanas[n].Rango = RangoLabel(df.rows[i][FECHA], df.rows[i][FECHA])

C8_Witness ==
    /\ Exported
    /\ Len(semanas) >= 2
    /\ \E n \in Buckets : Cardinality(BucketMembers(n)) = 1
    /\ \E n \in Buckets : Cardinality(BucketMembers(n)) >= 2

\* The row a reader of the stored table gets back for a submitted record
StoredRow(f) == [c \in Range(SchemaColumns) |-> ReadCell(WriteCell(new_row(f)[c]))]

\* C9: a submission with a name appends its record to the stored table: the
\* table then reads as the rows it held, in their order, followed by the new
\* record; any other pass through the form leaves the stored table alone.
C9_AppendOnly ==
    [][pc = "form" =>
         IF form'.submitted /\ form'.campos.nombre # ""
           THEN read_excel(file'.table).rows
                  = Append(read_excel(file.table).rows, StoredRow(form'.campos))
           ELSE file' = file]_vars

C9_Witness ==
    /\ pc = "clean"
    /\ form.submitted
    /\ form.campos.nombre # ""
    /\ Len(file.table.rows) = 3
    /\ NombreDe(file.table.rows[1]) # NombreDe(file.table.rows[3])

\* C10: a submission with an empty name adds no record and leaves the stored
\* table unchanged; a record the form adds has a non-empty name.
C10_EmptyNameAddsNothing ==
    [][pc = "form" =>
         /\ form'.campos.nombre = "" => (file' = file /\ df' = df)
         /\ file' # file =>
              /\ Len(file'.table.rows) = Len(file.table.rows) + 1
              /\ NombreDe(file'.table.rows[Len(file'.table.rows)])
                   \notin {S(""), Blank, NA}]_vars

C10_Witness ==
    /\ pc = "clean"
    /\ form.submitted
    /\ form.campos.nombre = ""
    /\ Len(file.table.rows) >= 1

====
